---- MODULE Spec2Model ----
(***************************************************************************)
(* SurfaceLayer (examples/plot/plot-layer/surface-layer.js): the attribute *)
(* pipeline of a deck.gl layer that plots z = f(u, v) on a uCount x vCount *)
(* grid.  The state is the layer's props, state.vertexCount, the four      *)
(* attribute buffers and their needsUpdate flags; the actions are the      *)
(* layer's handlers (updateState, the four attribute updaters, picking).   *)
(*                                                                         *)
(* A JavaScript number is modelled exactly as a record [n, d] standing for *)
(* the quotient n/d; d = 0 stands for the non-finite values (0/0 is NaN,   *)
(* 1/0 is Infinity, -1/0 is -Infinity).  Floating-point rounding is not    *)
(* modelled: the accessor functions below return small integers, which     *)
(* Float32Array and double arithmetic represent exactly.                   *)
(***************************************************************************)
EXTENDS Integers, Sequences, FiniteSets, TLC

\* ---------------------------------------------------------------- bounds
\* Largest uCount / vCount of the main specification.
MaxCount == 3
\* Largest uCount / vCount of the specification of unguarded dimensions.
MaxDegenerate == 7
\* Largest uCount / vCount of the picking specification.
MaxPickCount == 257
\* Background pixels read back by a pick have r, g in 0..MaxBackground.
MaxBackground == 2

\* ------------------------------------------------------------ JS numbers
Num(k) == [n |-> k, d |-> 1]
NaN == [n |-> 0, d |-> 0]
Infinity == [n |-> 1, d |-> 0]
NegInfinity == [n |-> -1, d |-> 0]

Sign(k) == IF k > 0 THEN 1 ELSE IF k < 0 THEN -1 ELSE 0

\* a / b on integers a, b (b >= 0 or < 0), as JS computes it: x/0 is +-Infinity, 0/0 NaN.
Div(a, b) ==
  IF b = 0 THEN [n |-> Sign(a), d |-> 0]
  ELSE IF b < 0 THEN [n |-> -a, d |-> -b]
  ELSE [n |-> a, d |-> b]

\* x * k for a JS number x and an integer k > 0.
Times(x, k) == IF x.d = 0 THEN x ELSE [n |-> x.n * k, d |-> x.d]

isFinite(x) == x.d # 0
isNaN(x) == x.d = 0 /\ x.n = 0

\* x < y on JS numbers; any comparison with NaN is false.
Less(x, y) ==
  IF isNaN(x) \/ isNaN(y) THEN FALSE
  ELSE IF x.d = 0 /\ y.d = 0 THEN x.n < y.n
  ELSE IF x.d = 0 THEN x.n < 0
  ELSE IF y.d = 0 THEN y.n > 0
  ELSE x.n * y.d < y.n * x.d

\* Integer floor of n/d for d > 0 (TLA+'s \div rounds toward minus infinity).
Floor(x) == x.n \div x.d

\* Math.round: the nearest integer, halves toward plus infinity.
MathRound(x) == (2 * x.n + x.d) \div (2 * x.d)

UINT8_MAX == 255

\* Mutant: a Uint8Array-like store that truncates instead of rounding.
ToUint8Truncate(x) ==
  IF x.d = 0 THEN (IF x.n > 0 THEN UINT8_MAX ELSE 0)
  ELSE IF x.n <= 0 THEN 0
  ELSE IF x.n >= UINT8_MAX * x.d THEN UINT8_MAX
  ELSE x.n \div x.d

\* Storing into a Uint8ClampedArray: NaN becomes 0, the value is clamped to
\* [0, 255] and rounded to the nearest integer, halves to the even one.
ToUint8Clamp(x) ==
  IF x.d = 0 THEN (IF x.n > 0 THEN UINT8_MAX ELSE 0)
  ELSE IF x.n <= 0 THEN 0
  ELSE IF x.n >= UINT8_MAX * x.d THEN UINT8_MAX
  ELSE LET f == x.n \div x.d
           r2 == 2 * (x.n - f * x.d)
       IN  IF r2 < x.d THEN f
           ELSE IF r2 > x.d THEN f + 1
           ELSE IF f % 2 = 0 THEN f ELSE f + 1

\* Storing an integer into a Uint32Array keeps it modulo 2^32: unchanged for
\* the integers 0 <= k < 2^31 (all that arise here: an index is a sum and
\* product of non-negative counts), so the conversion is the identity on them.
ToUint32(k) == k

\* ------------------------------------------------- caller-supplied props
\* The accessor functions a caller may pass; "default" is the one of
\* defaultProps.  A function prop is represented by its name.
PositionFns == {"default", "ramp", "pole"}
ColorFns == {"default", "heat", "fade"}
ScaleFactories == {"default", "flip"}

\* getPosition(u, v) -> [x, y, z].
\*   default: () => [0, 0, 0]
\*   ramp:    (u, v) => [floor(2u) - 1, floor(2v), floor(2u) * floor(2v)]
\*   pole:    (u, v) => [u === 0 ? NaN : 2, v === 1 ? Infinity : -1,
\*                       u === v ? -Infinity : 3]
getPosition(fn, u, v) ==
  IF fn = "ramp" THEN
    IF isFinite(u) /\ isFinite(v)
    THEN <<Num(Floor(Times(u, 2)) - 1), Num(Floor(Times(v, 2))),
           Num(Floor(Times(u, 2)) * Floor(Times(v, 2)))>>
    ELSE <<NaN, NaN, NaN>>
  ELSE IF fn = "pole" THEN
    << IF isFinite(u) /\ u.n = 0 THEN NaN ELSE Num(2),
       IF isFinite(v) /\ v.n = v.d THEN Infinity ELSE Num(-1),
       IF isFinite(u) /\ isFinite(v) /\ u.n * v.d = v.n * u.d
       THEN NegInfinity ELSE Num(3) >>
  ELSE <<Num(0), Num(0), Num(0)>>

\* getColor(x, y, z) -> [r, g, b, a?]; a missing alpha (undefined) is NaN
\* to isNaN, and is written NaN here.
\*   default: () => [0, 0, 0, 255]
\*   heat:    (x, y, z) => [100 x, 100 y + 50, 300 z]
\*   fade:    (x, y, z) => [200 + 100 x, 150 z, 90 y, 100 y - 50]
getColor(fn, x, y, z) ==
  IF fn = "heat" THEN
    <<Num(100 * x.n), Num(100 * y.n + 50), Num(300 * z.n), NaN>>
  ELSE IF fn = "fade" THEN
    <<Num(200 + 100 * x.n), Num(150 * z.n), Num(90 * y.n), Num(100 * y.n - 50)>>
  ELSE <<Num(0), Num(0), Num(0), Num(UINT8_MAX)>>

\* getXScale / getYScale / getZScale({min, max}) -> scale: the closure the
\* factory returns, which keeps the extent it was built from.
\*   default: () => scaleLinear()            (domain [0,1] onto [0,1]: x => x)
\*   flip:    ({min, max}) => x => min + max - x
getScale(factory, min, max) == [kind |-> factory, min |-> min, max |-> max]

\* scale(x)
ApplyScale(scale, x) ==
  IF scale.kind = "flip" THEN
    IF isFinite(x) /\ isFinite(scale.min) /\ isFinite(scale.max)
    THEN Num(scale.min.n + scale.max.n - x.n)
    ELSE NaN
  ELSE x

Accessors == {"getPosition", "getColor", "getXScale", "getYScale", "getZScale"}

MakeProps(uc, vc, gp, gc, xs, ys, zs) ==
  [uCount |-> uc, vCount |-> vc, getPosition |-> gp, getColor |-> gc,
   getXScale |-> xs, getYScale |-> ys, getZScale |-> zs]

\* defaultProps, but for the grid dimensions.
DefaultProps(uc, vc) ==
  MakeProps(uc, vc, "default", "default", "default", "default", "default")

\* The props of the main specification: the caller guards uCount, vCount >= 2.
GuardedProps ==
  { MakeProps(uc, vc, gp, gc, xs, ys, zs) :
      uc \in 2..MaxCount, vc \in 2..MaxCount, gp \in PositionFns, gc \in ColorFns,
      xs \in ScaleFactories, ys \in ScaleFactories, zs \in ScaleFactories }

\* ------------------------------------------------------------ the updaters
\* Each loop of the source is written as the sequence of its iterations, in
\* the order the loop runs them, and the buffer it fills as the typed array
\* the iterations' writes value[i++] = ... leave behind: iteration k (from 0)
\* writes the slots size*k .. size*k + size - 1, and a slot no iteration
\* writes keeps the 0 the typed array was created with.

\* arr[i] read from a typed array: undefined (NaN in arithmetic) outside it.
Load(arr, i) == IF i + 1 \in DOMAIN arr THEN arr[i + 1] ELSE NaN

Max0(k) == IF k > 0 THEN k ELSE 0

\* for (xIndex = 0; xIndex < uCount - 1; xIndex++)
\*   for (yIndex = 0; yIndex < vCount - 1; yIndex++)
QuadLoop(uCount, vCount) ==
  [q \in 1..(Max0(uCount - 1) * Max0(vCount - 1)) |->
     [xIndex |-> (q - 1) \div (vCount - 1), yIndex |-> (q - 1) % (vCount - 1)]]

\* Mutant: the first triangle wound the other way.
QuadIndicesRewound(uCount, xIndex, yIndex) ==
  LET i0 == yIndex * uCount + xIndex
      i1 == i0 + 1
      i2 == i0 + uCount
      i3 == i2 + 1
  IN  <<ToUint32(i0), ToUint32(i1), ToUint32(i2), ToUint32(i1), ToUint32(i2), ToUint32(i3)>>

\* The six indices one iteration writes.
QuadIndices(uCount, xIndex, yIndex) ==
  LET i0 == yIndex * uCount + xIndex
      i1 == i0 + 1
      i2 == i0 + uCount
      i3 == i2 + 1
  IN  <<ToUint32(i0), ToUint32(i2), ToUint32(i1), ToUint32(i1), ToUint32(i2), ToUint32(i3)>>

\* Mutant: one factor counts grid lines, not the gaps between them.
IndicesCountOffByOne(uCount, vCount) == uCount * (vCount - 1) * 2 * 3

\* indicesCount = (uCount - 1) * (vCount - 1) * 2 * 3
IndicesCount(uCount, vCount) == (uCount - 1) * (vCount - 1) * 2 * 3

\* calculateIndices: the buffer assigned to attribute.value and the count given
\* to model.setVertexCount; new Uint32Array(n) throws a RangeError for n < 0,
\* and then neither is set.
calculateIndices(uCount, vCount) ==
  LET indicesCount == IndicesCount(uCount, vCount)
      loop == QuadLoop(uCount, vCount)
  IN  IF indicesCount < 0
      THEN [throws |-> TRUE, value |-> <<>>, count |-> 0]
      ELSE [throws |-> FALSE,
            value |-> [j \in 1..indicesCount |->
                         LET q == ((j - 1) \div 6) + 1
                         IN  IF q \in DOMAIN loop
                             THEN QuadIndices(uCount, loop[q].xIndex,
                                              loop[q].yIndex)[((j - 1) % 6) + 1]
                             ELSE 0],
            count |-> indicesCount]

\* Mutant: the two loops nested the other way round (uIndex outer).
VertexLoopColumnMajor(uCount, vCount) ==
  [k \in 1..(Max0(uCount) * Max0(vCount)) |->
     [uIndex |-> (k - 1) \div vCount, vIndex |-> (k - 1) % vCount]]

\* for (vIndex = 0; vIndex < vCount; vIndex++)
\*   for (uIndex = 0; uIndex < uCount; uIndex++)
VertexLoop(uCount, vCount) ==
  [k \in 1..(Max0(uCount) * Max0(vCount)) |->
     [uIndex |-> (k - 1) % uCount, vIndex |-> (k - 1) \div uCount]]

\* Mutant: the flag marks an invalid z only, as the source's comment words it.
SampleVertexZOnly(p, uIndex, vIndex) ==
  LET u == Div(uIndex, p.uCount - 1)
      v == Div(vIndex, p.vCount - 1)
      s == getPosition(p.getPosition, u, v)
      x == IF isFinite(s[1]) THEN s[1] ELSE Num(0)
      y == IF isFinite(s[2]) THEN s[2] ELSE Num(0)
      z == IF isFinite(s[3]) THEN s[3] ELSE Num(0)
  IN  [u |-> u, v |-> v, x |-> x, y |-> y, z |-> z,
       stored |-> <<x, z, y, IF isFinite(s[3]) THEN Num(0) ELSE Num(1)>>]

\* The body of calculatePositions' first loop for one (uIndex, vIndex): the
\* call of getPosition, the sanitized x, y, z and the four values stored.
SampleVertex(p, uIndex, vIndex) ==
  LET u == Div(uIndex, p.uCount - 1)
      v == Div(vIndex, p.vCount - 1)
      s == getPosition(p.getPosition, u, v)
      isXFinite == isFinite(s[1])
      isYFinite == isFinite(s[2])
      isZFinite == isFinite(s[3])
      x == IF isXFinite THEN s[1] ELSE Num(0)
      y == IF isYFinite THEN s[2] ELSE Num(0)
      z == IF isZFinite THEN s[3] ELSE Num(0)
  IN  [u |-> u, v |-> v, x |-> x, y |-> y, z |-> z,
       stored |-> <<x, z, y,
                    IF isXFinite /\ isYFinite /\ isZFinite THEN Num(0) ELSE Num(1)>>]

\* xMin = Math.min(xMin, x) over the loop, from Infinity: the least of the
\* values, Infinity when there is none.  (The values are finite: sanitized.)
RunningMin(values) ==
  IF values = {} THEN Infinity
  ELSE CHOOSE m \in values : \A o \in values : ~Less(o, m)

\* Mutant: Math.min copied where Math.max belongs.
RunningMaxAsMin(values) == RunningMin(values)

\* xMax = Math.max(xMax, x) over the loop, from -Infinity.
RunningMax(values) ==
  IF values = {} THEN NegInfinity
  ELSE CHOOSE m \in values : \A o \in values : ~Less(m, o)

\* !flag on a number: true for 0 and NaN.
Falsy(x) == isNaN(x) \/ (isFinite(x) /\ x.n = 0)

\* calculatePositions: the buffer, the three scales, and the calls made to
\* the caller's functions, in order.
calculatePositions(vertexCount, p) ==
  LET loop == VertexLoop(p.uCount, p.vCount)
      sample == [k \in DOMAIN loop |-> SampleVertex(p, loop[k].uIndex, loop[k].vIndex)]
      raw == [j \in 1..(vertexCount * 4) |->
                LET k == ((j - 1) \div 4) + 1
                IN  IF k \in DOMAIN loop THEN sample[k].stored[((j - 1) % 4) + 1]
                    ELSE Num(0)]
      xMin == RunningMin({sample[k].x : k \in DOMAIN loop})
      xMax == RunningMax({sample[k].x : k \in DOMAIN loop})
      yMin == RunningMin({sample[k].y : k \in DOMAIN loop})
      yMax == RunningMax({sample[k].y : k \in DOMAIN loop})
      zMin == RunningMin({sample[k].z : k \in DOMAIN loop})
      zMax == RunningMax({sample[k].z : k \in DOMAIN loop})
      xScale == getScale(p.getXScale, xMin, xMax)
      yScale == getScale(p.getYScale, yMin, yMax)
      zScale == getScale(p.getZScale, zMin, zMax)
      \* for (j = 0; j < vertexCount; j++) if (!value[j * 4 + 3]) ...
      scaled == [j \in 1..(vertexCount * 4) |->
                   LET startIndex == ((j - 1) \div 4) * 4
                       c == (j - 1) % 4
                   IN  IF Falsy(Load(raw, startIndex + 3)) /\ c < 3
                       THEN ApplyScale(IF c = 0 THEN xScale
                                       ELSE IF c = 1 THEN zScale ELSE yScale, raw[j])
                       ELSE raw[j]]
  IN  [value |-> scaled,
       calls |-> [k \in DOMAIN loop |->
                    [fn |-> "getPosition", args |-> <<sample[k].u, sample[k].v>>]] \o
                 << [fn |-> "getXScale", args |-> <<xMin, xMax>>],
                    [fn |-> "getYScale", args |-> <<yMin, yMax>>],
                    [fn |-> "getZScale", args |-> <<zMin, zMax>>],
                    [fn |-> "onUpdate", args |-> <<xScale, yScale, zScale>>] >>]

\* Mutant: getColor called with the stored order, the swap not undone.
VertexColorUnswapped(fn, positions, i) ==
  LET index == i * 4
      color == getColor(fn, Load(positions, index), Load(positions, index + 1),
                        Load(positions, index + 2))
  IN  << ToUint8Clamp(color[1]), ToUint8Clamp(color[2]), ToUint8Clamp(color[3]),
         IF isNaN(color[4]) THEN UINT8_MAX ELSE ToUint8Clamp(color[4]) >>

\* The four bytes calculateColors stores for vertex i.
VertexColor(fn, positions, i) ==
  LET index == i * 4
      color == getColor(fn, Load(positions, index), Load(positions, index + 2),
                        Load(positions, index + 1))
  IN  << ToUint8Clamp(color[1]), ToUint8Clamp(color[2]), ToUint8Clamp(color[3]),
         IF isNaN(color[4]) THEN UINT8_MAX ELSE ToUint8Clamp(color[4]) >>

\* for (i = 0; i < vertexCount; i++)
calculateColors(vertexCount, fn, positions) ==
  [j \in 1..(vertexCount * 4) |->
     VertexColor(fn, positions, (j - 1) \div 4)[((j - 1) % 4) + 1]]

encodePickingColor(i, uCount, vCount) ==
  LET xIndex == i % uCount
      yIndex == (i - xIndex) \div uCount
  IN  << Times(Div(xIndex, uCount - 1), UINT8_MAX),
         Times(Div(yIndex, vCount - 1), UINT8_MAX),
         Num(1) >>

\* Mutant: the sentinel test reads the wrong channel.
decodePickingColorOnRed(c) ==
  IF c[1] = 0
  THEN [index |-> -1, uv |-> <<>>]
  ELSE [index |-> 0, uv |-> <<Div(c[1], UINT8_MAX), Div(c[2], UINT8_MAX)>>]

\* -1 (no hit) is written [index |-> -1]; [u, v] is written [index |-> 0, uv |-> <<u, v>>].
decodePickingColor(c) ==
  IF c[3] = 0
  THEN [index |-> -1, uv |-> <<>>]
  ELSE [index |-> 0, uv |-> <<Div(c[1], UINT8_MAX), Div(c[2], UINT8_MAX)>>]

\* for (i = 0; i < vertexCount; i++)
calculatePickingColors(vertexCount, uCount, vCount) ==
  [j \in 1..(vertexCount * 3) |->
     ToUint8Clamp(encodePickingColor((j - 1) \div 3, uCount, vCount)[((j - 1) % 3) + 1])]

\* --------------------------------------------------------------- the layer
VARIABLES
  props,             \* this.props
  vertexCount,       \* this.state.vertexCount
  needsUpdate,       \* the attribute manager's dirty flag of each attribute
  indices,           \* attributes.indices.value
  positions,         \* attributes.positions.value
  colors,            \* attributes.colors.value
  pickingColors,     \* attributes.pickingColors.value
  modelVertexCount,  \* the count given to this.state.model.setVertexCount
  pc,                \* "mount", "idle", "updating" or "crashed"
  pickInfo,          \* the info of the last pick, <<>> before any
  calls,             \* history: the caller's functions calculatePositions called this cycle
  recomputed,        \* history: the attributes whose updater ran this cycle
  change             \* history: what the cycle's props change was

vars == <<props, vertexCount, needsUpdate, indices, positions, colors, pickingColors,
          modelVertexCount, pc, pickInfo, calls, recomputed, change>>

\* initializeState: the attributes in the order they are added, and the
\* accessors each declares.
AttributeOrder == <<"indices", "positions", "colors", "pickingColors">>
Attributes == {AttributeOrder[k] : k \in DOMAIN AttributeOrder}

\* Mutant: colors declares getColor alone.
AttributeAccessorsColorAlone(a) ==
  IF a = "positions" THEN {"getPosition"}
  ELSE IF a = "colors" THEN {"getColor"}
  ELSE {}

AttributeAccessors(a) ==
  IF a = "positions" THEN {"getPosition"}
  ELSE IF a = "colors" THEN {"getPosition", "getColor"}
  ELSE {}

\* attributeManager.invalidateAll()
invalidateAll(flags) == [a \in Attributes |-> TRUE]

\* updateState({oldProps, props, changeFlags}) with changeFlags.propsChanged;
\* oldDims is <<oldProps.uCount, oldProps.vCount>>, or <<>> for the empty
\* oldProps of the first update.
updateState(oldDims, p, vc, flags) ==
  IF oldDims # <<p.uCount, p.vCount>>
  THEN [vertexCount |-> p.uCount * p.vCount, needsUpdate |-> invalidateAll(flags)]
  ELSE [vertexCount |-> vc, needsUpdate |-> flags]

\* The attribute manager marks dirty the attributes that declare an accessor
\* that changed.
invalidateAccessors(flags, changed) ==
  [a \in Attributes |-> flags[a] \/ AttributeAccessors(a) \cap changed # {}]

\* The attribute manager updates the dirty attributes in the order they were added.
NextDirty ==
  IF \E k \in DOMAIN AttributeOrder : needsUpdate[AttributeOrder[k]]
  THEN AttributeOrder[CHOOSE k \in DOMAIN AttributeOrder :
         /\ needsUpdate[AttributeOrder[k]]
         /\ \A j \in 1..(k - 1) : ~needsUpdate[AttributeOrder[j]]]
  ELSE "none"

InitWith(p) ==
  /\ props = p
  /\ vertexCount = 0
  /\ needsUpdate = [a \in Attributes |-> TRUE]
  /\ indices = <<>>
  /\ positions = <<>>
  /\ colors = <<>>
  /\ pickingColors = <<>>
  /\ modelVertexCount = 0
  /\ pc = "mount"
  /\ pickInfo = <<>>
  /\ calls = <<>>
  /\ recomputed = {}
  /\ change = [dims |-> FALSE, accessors |-> {}]

Init == \E p \in GuardedProps : InitWith(p)

\* The first update cycle of a new layer: updateState with empty oldProps.
InitialUpdate ==
  /\ pc = "mount"
  /\ LET r == updateState(<<>>, props, vertexCount, needsUpdate)
     IN  /\ vertexCount' = r.vertexCount
         /\ needsUpdate' = r.needsUpdate
  /\ pc' = "updating"
  /\ calls' = <<>>
  /\ recomputed' = {}
  /\ change' = [dims |-> TRUE, accessors |-> {}]
  /\ UNCHANGED <<props, indices, positions, colors, pickingColors, modelVertexCount, pickInfo>>

\* The host runs one update cycle per mutation of the props: the grid
\* dimensions change (one or both), or one accessor does.
OneMutation(old, new) ==
  LET changed == {a \in Accessors : old[a] # new[a]}
  IN  IF <<old.uCount, old.vCount>> # <<new.uCount, new.vCount>>
      THEN changed = {}
      ELSE Cardinality(changed) = 1

\* An update cycle begins: the caller passes new props, updateState runs and
\* the attribute manager invalidates by accessor.
SetProps ==
  /\ pc = "idle"
  /\ \E p \in GuardedProps :
       /\ p # props
       /\ OneMutation(props, p)
       /\ LET r == updateState(<<props.uCount, props.vCount>>, p, vertexCount, needsUpdate)
              changed == {a \in Accessors : props[a] # p[a]}
          IN  /\ vertexCount' = r.vertexCount
              /\ needsUpdate' = invalidateAccessors(r.needsUpdate, changed)
              /\ change' = [dims |-> <<props.uCount, props.vCount>> # <<p.uCount, p.vCount>>,
                            accessors |-> changed]
       /\ props' = p
  /\ pc' = "updating"
  /\ calls' = <<>>
  /\ recomputed' = {}
  /\ pickInfo' = <<>>
  /\ UNCHANGED <<indices, positions, colors, pickingColors, modelVertexCount>>

CalculateIndices ==
  /\ pc = "updating"
  /\ NextDirty = "indices"
  /\ LET r == calculateIndices(props.uCount, props.vCount)
     IN  IF r.throws
         THEN /\ pc' = "crashed"
              /\ UNCHANGED <<indices, modelVertexCount, needsUpdate, recomputed>>
         ELSE /\ indices' = r.value
              /\ modelVertexCount' = r.count
              /\ needsUpdate' = [needsUpdate EXCEPT !["indices"] = FALSE]
              /\ recomputed' = recomputed \cup {"indices"}
              /\ pc' = pc
  /\ UNCHANGED <<props, vertexCount, positions, colors, pickingColors, pickInfo, calls, change>>

CalculatePositions ==
  /\ pc = "updating"
  /\ NextDirty = "positions"
  /\ LET r == calculatePositions(vertexCount, props)
     IN  /\ positions' = r.value
         /\ calls' = calls \o r.calls
  /\ needsUpdate' = [needsUpdate EXCEPT !["positions"] = FALSE]
  /\ recomputed' = recomputed \cup {"positions"}
  /\ UNCHANGED <<props, vertexCount, indices, colors, pickingColors, modelVertexCount, pc,
                 pickInfo, change>>

CalculateColors ==
  /\ pc = "updating"
  /\ NextDirty = "colors"
  /\ colors' = calculateColors(vertexCount, props.getColor, positions)
  /\ needsUpdate' = [needsUpdate EXCEPT !["colors"] = FALSE]
  /\ recomputed' = recomputed \cup {"colors"}
  /\ UNCHANGED <<props, vertexCount, indices, positions, pickingColors, modelVertexCount, pc,
                 pickInfo, calls, change>>

CalculatePickingColors ==
  /\ pc = "updating"
  /\ NextDirty = "pickingColors"
  /\ pickingColors' = calculatePickingColors(vertexCount, props.uCount, props.vCount)
  /\ needsUpdate' = [needsUpdate EXCEPT !["pickingColors"] = FALSE]
  /\ recomputed' = recomputed \cup {"pickingColors"}
  /\ UNCHANGED <<props, vertexCount, indices, positions, colors, modelVertexCount, pc,
                 pickInfo, calls, change>>

\* The attribute manager has no dirty attribute left: the cycle is complete.
FinishUpdate ==
  /\ pc = "updating"
  /\ NextDirty = "none"
  /\ pc' = "idle"
  /\ UNCHANGED <<props, vertexCount, needsUpdate, indices, positions, colors, pickingColors,
                 modelVertexCount, pickInfo, calls, recomputed, change>>

\* The pixels a pick can read back: the picking color of a rendered vertex, or
\* a background pixel (b = 0).
BackgroundLevels == (0..MaxBackground) \cup {UINT8_MAX}
Pixels ==
  { <<pickingColors[3 * i + 1], pickingColors[3 * i + 2], pickingColors[3 * i + 3]>> :
      i \in 0..((Len(pickingColors) \div 3) - 1) }
  \cup { <<r, g, 0>> : r \in BackgroundLevels, g \in BackgroundLevels }

\* getPickingInfo on the decoded pixel: a hit carries the sample at (u, v).
getPickingInfo(pixel, p) ==
  LET index == decodePickingColor(pixel)
  IN  [pixel |-> pixel, index |-> index,
       sample |-> IF index.index # -1
                  THEN getPosition(p.getPosition, index.uv[1], index.uv[2])
                  ELSE <<>>]

Pick ==
  /\ pc = "idle"
  /\ \E pixel \in Pixels : pickInfo' = <<getPickingInfo(pixel, props)>>
  /\ UNCHANGED <<props, vertexCount, needsUpdate, indices, positions, colors, pickingColors,
                 modelVertexCount, pc, calls, recomputed, change>>

\* One update cycle of the attribute manager.
UpdateCycle ==
  \/ CalculateIndices
  \/ CalculatePositions
  \/ CalculateColors
  \/ CalculatePickingColors
  \/ FinishUpdate

Next ==
  \/ InitialUpdate
  \/ SetProps
  \/ UpdateCycle

Spec == Init /\ [][Next]_vars

\* The first cycle of a layer, then picks; no later change of props.
NextMount ==
  \/ InitialUpdate
  \/ UpdateCycle
  \/ Pick

\* The first cycle of a layer alone.
NextFirstCycle ==
  \/ InitialUpdate
  \/ UpdateCycle

\* A caller that does not guard the dimensions: any uCount, vCount >= 0.
InitDegenerate ==
  \E uc \in 0..MaxDegenerate, vc \in 0..MaxDegenerate : InitWith(DefaultProps(uc, vc))

SpecDegenerate == InitDegenerate /\ [][NextMount]_vars

\* Long, thin grids: one dimension up to MaxPickCount, the other 2.
InitPicking ==
  \E uc \in 2..MaxPickCount, vc \in 2..MaxPickCount :
    /\ uc = 2 \/ vc = 2
    /\ InitWith(DefaultProps(uc, vc))

SpecPicking == InitPicking /\ [][NextFirstCycle]_vars

\* ------------------------------------------------------------- properties
\* The decomposition of a linear vertex index.
UIndexOf(i, uCount) == i % uCount
VIndexOf(i, uCount) == (i - (i % uCount)) \div uCount

\* The attribute's buffer was computed from the current props.
Fresh(a) == pc \in {"updating", "idle"} /\ ~needsUpdate[a]

\* The six indices of quad (xIndex, yIndex) start at slot s (0-based).
QuadAt(s, xIndex, yIndex) ==
  LET i0 == yIndex * props.uCount + xIndex
  IN  /\ s + 6 <= Len(indices)
      /\ <<indices[s + 1], indices[s + 2], indices[s + 3],
           indices[s + 4], indices[s + 5], indices[s + 6]>>
         = <<i0, i0 + props.uCount, i0 + 1, i0 + 1, i0 + props.uCount, i0 + props.uCount + 1>>

\* C1: for uCount, vCount >= 2 the index buffer has (uCount-1)(vCount-1)*6
\* entries, each a vertex number in [0, uCount*vCount); every grid quad appears
\* exactly once as the six consecutive indices (i0, i2, i1, i1, i2, i3); and the
\* count reported to the model is the buffer's length.
C1_IndexBuffer ==
  (Fresh("indices") /\ props.uCount >= 2 /\ props.vCount >= 2) =>
    /\ Len(indices) = (props.uCount - 1) * (props.vCount - 1) * 6
    /\ \A j \in DOMAIN indices : indices[j] \in 0..(props.uCount * props.vCount - 1)
    /\ \A xIndex \in 0..(props.uCount - 2), yIndex \in 0..(props.vCount - 2) :
         Cardinality({q \in 0..((Len(indices) \div 6) - 1) : QuadAt(6 * q, xIndex, yIndex)}) = 1
    /\ modelVertexCount = Len(indices)

\* The 3 x 3 grid of the spec's scenario: 24 indices.
C1_Witness ==
  /\ Fresh("indices")
  /\ props.uCount = 3 /\ props.vCount = 3
  /\ Len(indices) = 24
  /\ modelVertexCount = 24

\* What the index buffer of a degenerate grid is.
IndicesEmpty == "indices" \in recomputed => (Len(indices) = 0 /\ modelVertexCount = 0)

\* C6 as claimed: whenever uCount < 2 or vCount < 2, calculateIndices raises
\* no error and leaves an empty buffer with a reported count of 0.
C6_DegenerateEmpty ==
  (props.uCount < 2 \/ props.vCount < 2) => (pc # "crashed" /\ IndicesEmpty)

\* C6 as amended: with uCount = 1 or vCount = 1 calculateIndices raises no
\* error and leaves an empty buffer with count 0; with uCount = vCount = 0 it
\* raises no error and leaves six zeros with count 6; with one dimension 0 and
\* the other at least 2 it throws and sets nothing.
C6_DegenerateByCase ==
  /\ (props.uCount = 1 \/ props.vCount = 1) => (pc # "crashed" /\ IndicesEmpty)
  /\ (props.uCount = 0 /\ props.vCount = 0) =>
       /\ pc # "crashed"
       /\ "indices" \in recomputed =>
            (indices = <<0, 0, 0, 0, 0, 0>> /\ modelVertexCount = 6)
  /\ ((props.uCount = 0 /\ props.vCount >= 2) \/ (props.uCount >= 2 /\ props.vCount = 0)) =>
       /\ "indices" \notin recomputed
       /\ indices = <<>>
       /\ modelVertexCount = 0
       /\ pc \in {"mount", "updating", "crashed"}
       /\ (pc = "updating" => NextDirty = "indices")

C6_Witness ==
  /\ props.uCount = 1 /\ props.vCount = 0
  /\ "indices" \in recomputed
  /\ pc = "idle"
  /\ Len(indices) = 0

\* The picking color stored for vertex i.
StoredPickingColor(i) ==
  <<pickingColors[3 * i + 1], pickingColors[3 * i + 2], pickingColors[3 * i + 3]>>

\* decode(stored color of i) gives (u, v) that round back to i's grid cell.
RoundTrips(i) ==
  LET d == decodePickingColor(StoredPickingColor(i))
  IN  /\ d.index # -1
      /\ MathRound([n |-> d.uv[1].n * (props.uCount - 1), d |-> d.uv[1].d])
           = UIndexOf(i, props.uCount)
      /\ MathRound([n |-> d.uv[2].n * (props.vCount - 1), d |-> d.uv[2].d])
           = VIndexOf(i, props.uCount)

\* C2 as claimed: for all uCount, vCount >= 2 the stored picking color of every
\* vertex decodes to (u, v) with round(u (uCount-1)) = uIndex and
\* round(v (vCount-1)) = vIndex.
C2_RoundTripAnyCount ==
  (Fresh("pickingColors") /\ props.uCount >= 2 /\ props.vCount >= 2) =>
    \A i \in 0..(vertexCount - 1) : RoundTrips(i)

\* C2 as amended: the round trip holds for 2 <= uCount, vCount <= 256 (one
\* grid line per value of a byte).
C2_RoundTripUpTo256 ==
  (/\ Fresh("pickingColors")
   /\ props.uCount >= 2 /\ props.vCount >= 2
   /\ props.uCount <= UINT8_MAX + 1 /\ props.vCount <= UINT8_MAX + 1) =>
    \A i \in 0..(vertexCount - 1) : RoundTrips(i)

\* 256 grid lines, the most that round-trip, one per value of a byte: vertex
\* 255 ends the first row with r = 255, vertex 256 starts the second with g = 255.
C2_Witness ==
  /\ Fresh("pickingColors")
  /\ props.uCount = UINT8_MAX + 1 /\ props.vCount = 2
  /\ vertexCount = 2 * (UINT8_MAX + 1)
  /\ StoredPickingColor(UINT8_MAX) = <<UINT8_MAX, 0, 1>>
  /\ StoredPickingColor(UINT8_MAX + 1) = <<0, UINT8_MAX, 1>>
  /\ RoundTrips(UINT8_MAX)

\* C3: a pixel with b = 0 decodes to the no-hit sentinel whatever r and g are;
\* every stored picking color of a vertex has b = 1 and never decodes to the
\* sentinel, so a pick of a vertex's pixel is a hit.
C3_NoPickingAmbiguity ==
  /\ pickInfo # <<>> =>
       /\ pickInfo[1].pixel[3] = 0 => pickInfo[1].index.index = -1
       /\ (\E i \in 0..(vertexCount - 1) : pickInfo[1].pixel = StoredPickingColor(i))
            => (pickInfo[1].index.index # -1 /\ Len(pickInfo[1].sample) = 3)
  /\ Fresh("pickingColors") =>
       \A i \in 0..(vertexCount - 1) :
         /\ StoredPickingColor(i)[3] = 1
         /\ decodePickingColor(StoredPickingColor(i)).index # -1

\* A background pixel with r = 255 and g = 1 was picked on a grid with vertices.
C3_Witness ==
  /\ pickInfo # <<>>
  /\ vertexCount > 0
  /\ pickInfo[1].pixel = <<UINT8_MAX, 1, 0>>
  /\ pickInfo[1].index.index = -1

\* The sample getPosition returns for vertex i of the current grid.
SampleAt(i) ==
  getPosition(props.getPosition,
              Div(UIndexOf(i, props.uCount), props.uCount - 1),
              Div(VIndexOf(i, props.uCount), props.vCount - 1))

Sanitized(x) == IF isFinite(x) THEN x ELSE Num(0)

\* The four floats stored for vertex i.
StoredPosition(i) ==
  <<positions[4 * i + 1], positions[4 * i + 2], positions[4 * i + 3], positions[4 * i + 4]>>

VertexIds == 0..(props.uCount * props.vCount - 1)

\* The scale functions the cycle's calculatePositions handed to onUpdate.
Emitted == calls[Len(calls)].args

\* C4: after calculatePositions, for every vertex the flag is 1 iff some axis
\* of the sample was non-finite; a flagged vertex keeps 0 on its non-finite
\* axes and the raw sample on its finite axes, none of them scaled; an
\* unflagged vertex holds (xScale(x), zScale(z), yScale(y)).
C4_FlagAndRescale ==
  "positions" \in recomputed =>
    /\ Len(positions) = 4 * props.uCount * props.vCount
    /\ \A i \in VertexIds :
         LET s == SampleAt(i)
             invalid == ~isFinite(s[1]) \/ ~isFinite(s[2]) \/ ~isFinite(s[3])
         IN  /\ StoredPosition(i)[4] = Num(IF invalid THEN 1 ELSE 0)
             /\ invalid =>
                  /\ StoredPosition(i)[1] = Sanitized(s[1])
                  /\ StoredPosition(i)[2] = Sanitized(s[3])
                  /\ StoredPosition(i)[3] = Sanitized(s[2])
             /\ ~invalid =>
                  /\ StoredPosition(i)[1] = ApplyScale(Emitted[1], s[1])
                  /\ StoredPosition(i)[2] = ApplyScale(Emitted[3], s[3])
                  /\ StoredPosition(i)[3] = ApplyScale(Emitted[2], s[2])

\* A pass over "pole" with flipping scales: vertex 0 is flagged with x and z
\* zeroed and its finite y = -1 kept unscaled; vertex 1 is valid and rescaled.
C4_Witness ==
  /\ "positions" \in recomputed
  /\ props.getPosition = "pole"
  /\ props.getXScale = "flip" /\ props.getYScale = "flip" /\ props.getZScale = "flip"
  /\ \E i \in VertexIds :
       /\ StoredPosition(i)[4] = Num(1)
       /\ ~isFinite(SampleAt(i)[1]) /\ isFinite(SampleAt(i)[2])
       /\ StoredPosition(i)[1] = Num(0)
       /\ StoredPosition(i)[3] = Num(-1)
       /\ ApplyScale(Emitted[2], Num(-1)) # Num(-1)
  /\ \E i \in VertexIds :
       /\ StoredPosition(i)[4] = Num(0)
       /\ StoredPosition(i)[1] # SampleAt(i)[1]

AllAttributes == {"indices", "positions", "colors", "pickingColors"}

\* What a completed cycle recomputed, by what changed.
ScopedByChange ==
  /\ change.dims => recomputed = AllAttributes
  /\ (~change.dims /\ change.accessors = {"getColor"}) => recomputed = {"colors"}
  /\ (~change.dims /\ change.accessors = {"getPosition"}) =>
       recomputed = {"positions", "colors"}

\* A step changes a buffer only by running its updater in the cycle.
TouchedOnlyByUpdater ==
  /\ indices' # indices => ("indices" \in recomputed' /\ "indices" \notin recomputed)
  /\ positions' # positions => ("positions" \in recomputed' /\ "positions" \notin recomputed)
  /\ colors' # colors => ("colors" \in recomputed' /\ "colors" \notin recomputed)
  /\ pickingColors' # pickingColors =>
       ("pickingColors" \in recomputed' /\ "pickingColors" \notin recomputed)

\* C5: a cycle that changed uCount or vCount recomputes all four attributes;
\* one that changed getColor alone recomputes only colors; one that changed
\* getPosition alone recomputes positions and colors; and a buffer that is not
\* recomputed is left untouched.
C5_InvalidationScoped ==
  /\ [](pc = "idle" => ScopedByChange)
  /\ [][TouchedOnlyByUpdater]_vars

\* A getPosition-only cycle has completed: positions and colors were redone.
C5_Witness ==
  /\ pc = "idle"
  /\ ~change.dims
  /\ change.accessors = {"getPosition"}
  /\ recomputed = {"positions", "colors"}
  /\ Len(indices) > 0 /\ Len(pickingColors) > 0

\* The least / greatest of a set of finite integers (as JS numbers).
LeastOf(S) == CHOOSE m \in S : \A o \in S : m.n <= o.n
GreatestOf(S) == CHOOSE m \in S : \A o \in S : m.n >= o.n

\* The sanitized samples of one axis (1: x, 2: y, 3: z) over all vertices.
AxisSamples(axis) == {Sanitized(SampleAt(i)[axis]) : i \in VertexIds}

ExtentOf(axis) == <<LeastOf(AxisSamples(axis)), GreatestOf(AxisSamples(axis))>>

\* C7: a positions recomputation samples every vertex, then calls getXScale,
\* getYScale and getZScale once each with the min and max over all vertices of
\* the axis's sanitized sample, then onUpdate once with the three scales; a
\* cycle that does not recompute positions calls none of them; with the
\* identity x scale the least and greatest stored x are the extent's.
C7_ScalesOncePerPass ==
  /\ "positions" \notin recomputed => calls = <<>>
  /\ "positions" \in recomputed =>
       LET n == props.uCount * props.vCount
       IN  /\ Len(calls) = n + 4
           /\ \A k \in 1..n : calls[k].fn = "getPosition"
           /\ calls[n + 1] = [fn |-> "getXScale", args |-> ExtentOf(1)]
           /\ calls[n + 2] = [fn |-> "getYScale", args |-> ExtentOf(2)]
           /\ calls[n + 3] = [fn |-> "getZScale", args |-> ExtentOf(3)]
           /\ calls[n + 4] =
                [fn |-> "onUpdate",
                 args |-> << getScale(props.getXScale, ExtentOf(1)[1], ExtentOf(1)[2]),
                             getScale(props.getYScale, ExtentOf(2)[1], ExtentOf(2)[2]),
                             getScale(props.getZScale, ExtentOf(3)[1], ExtentOf(3)[2]) >>]
           /\ props.getXScale = "default" =>
                /\ LeastOf({StoredPosition(i)[1] : i \in VertexIds}) = ExtentOf(1)[1]
                /\ GreatestOf({StoredPosition(i)[1] : i \in VertexIds}) = ExtentOf(1)[2]

\* A pass over "pole": every finite x is 2, yet the extent passed to getXScale
\* starts at the sanitized 0 of the invalid vertices; y's ends at 0.
C7_Witness ==
  /\ "positions" \in recomputed
  /\ props.getPosition = "pole"
  /\ props.getXScale = "default"
  /\ calls[Len(calls) - 3] = [fn |-> "getXScale", args |-> <<Num(0), Num(2)>>]
  /\ calls[Len(calls) - 2] = [fn |-> "getYScale", args |-> <<Num(-1), Num(0)>>]
  /\ calls[Len(calls)].fn = "onUpdate"

\* An integer clamped to a byte.
ClampByte(k) == IF k < 0 THEN 0 ELSE IF k > UINT8_MAX THEN UINT8_MAX ELSE k

\* C8: after calculateColors, every vertex (flagged or not) holds the color
\* getColor returns for (positions[4i], positions[4i+2], positions[4i+1]),
\* r, g, b clamped to [0,255], alpha 255 if the returned alpha is not a number
\* and the clamped alpha otherwise.
C8_ColorsFromPositions ==
  "colors" \in recomputed =>
    /\ Len(colors) = 4 * props.uCount * props.vCount
    /\ \A i \in VertexIds :
         LET c == getColor(props.getColor, StoredPosition(i)[1], StoredPosition(i)[3],
                           StoredPosition(i)[2])
         IN  /\ colors[4 * i + 1] = ClampByte(c[1].n)
             /\ colors[4 * i + 2] = ClampByte(c[2].n)
             /\ colors[4 * i + 3] = ClampByte(c[3].n)
             /\ colors[4 * i + 4] = IF isNaN(c[4]) THEN UINT8_MAX ELSE ClampByte(c[4].n)

\* "fade" over "pole": a flagged vertex is colored, its alpha 100 y - 50 < 0
\* clamped to 0, and its green 150 z differs from what 150 y would give.
C8_Witness ==
  /\ "colors" \in recomputed
  /\ props.getColor = "fade"
  /\ props.getPosition = "pole"
  /\ \E i \in VertexIds :
       /\ StoredPosition(i)[4] = Num(1)
       /\ StoredPosition(i)[2] # StoredPosition(i)[3]
       /\ colors[4 * i + 4] = 0
       /\ colors[4 * i + 2] = ClampByte(150 * StoredPosition(i)[2].n)

\* C9: vertexCount is uCount * vCount whenever an attribute is computed, so
\* positions, colors and pickingColors hold uCount * vCount vertices; slot i of
\* positions holds the sample taken at (uIndex/(uCount-1), vIndex/(vCount-1)),
\* slot i of pickingColors is the byte nearest 255 uIndex/(uCount-1) and
\* 255 vIndex/(vCount-1) and decodes back to (uIndex, vIndex), and the index buffer names
\* the grid point (uIndex, vIndex) by vIndex * uCount + uIndex.
C9_SharedDecomposition ==
  /\ pc \in {"updating", "idle"} => vertexCount = props.uCount * props.vCount
  /\ Fresh("positions") => Len(positions) = 4 * props.uCount * props.vCount
  /\ Fresh("colors") => Len(colors) = 4 * props.uCount * props.vCount
  /\ Fresh("pickingColors") => Len(pickingColors) = 3 * props.uCount * props.vCount
  /\ "positions" \in recomputed =>
       \A i \in VertexIds :
         /\ calls[i + 1] =
              [fn |-> "getPosition",
               args |-> << Div(UIndexOf(i, props.uCount), props.uCount - 1),
                           Div(VIndexOf(i, props.uCount), props.vCount - 1) >>]
         /\ (StoredPosition(i)[4] = Num(1)) =
              (\E axis \in 1..3 : ~isFinite(SampleAt(i)[axis]))
         /\ StoredPosition(i)[4] = Num(1) =>
              StoredPosition(i)[1] = Sanitized(SampleAt(i)[1])
  /\ Fresh("pickingColors") =>
       \A i \in VertexIds :
         /\ 2 * StoredPickingColor(i)[1] * (props.uCount - 1)
              \in (2 * UINT8_MAX * UIndexOf(i, props.uCount) - props.uCount + 1)
                  ..(2 * UINT8_MAX * UIndexOf(i, props.uCount) + props.uCount - 1)
         /\ 2 * StoredPickingColor(i)[2] * (props.vCount - 1)
              \in (2 * UINT8_MAX * VIndexOf(i, props.uCount) - props.vCount + 1)
                  ..(2 * UINT8_MAX * VIndexOf(i, props.uCount) + props.vCount - 1)
         /\ RoundTrips(i)
  /\ Fresh("indices") =>
       \A q \in 0..((Len(indices) \div 6) - 1) :
         LET i0 == indices[6 * q + 1]
             x0 == UIndexOf(i0, props.uCount)
             y0 == VIndexOf(i0, props.uCount)
             At(n, x, y) == n \in VertexIds /\ UIndexOf(n, props.uCount) = x
                                            /\ VIndexOf(n, props.uCount) = y
         IN  /\ At(i0, x0, y0)
             /\ At(indices[6 * q + 3], x0 + 1, y0)
             /\ At(indices[6 * q + 2], x0, y0 + 1)
             /\ At(indices[6 * q + 6], x0 + 1, y0 + 1)

\* A 3 x 2 grid of "ramp": vertex 4 is (uIndex, vIndex) = (1, 1), sampled at
\* (1/2, 1) and picked as (128, 255, 1).
C9_Witness ==
  /\ pc = "idle"
  /\ "positions" \in recomputed
  /\ props.uCount = 3 /\ props.vCount = 2
  /\ props.getPosition = "ramp"
  /\ vertexCount = 6
  /\ calls[5].args = <<Div(1, 2), Div(1, 1)>>
  /\ StoredPickingColor(4) = <<128, UINT8_MAX, 1>>
  /\ Len(indices) = 12

\* C10 as claimed: after every completed cycle each cached buffer is the one a
\* from-scratch computation with the current props produces.
C10_CacheCoherent ==
  pc = "idle" =>
    LET n == props.uCount * props.vCount
        fresh == calculatePositions(n, props).value
    IN  /\ indices = calculateIndices(props.uCount, props.vCount).value
        /\ positions = fresh
        /\ colors = calculateColors(n, props.getColor, fresh)
        /\ pickingColors = calculatePickingColors(n, props.uCount, props.vCount)
====
